---- MODULE Spec2Model ----
(***************************************************************************)
(* A model of the prefix-addressed KV block cache engine (KVCacheImpl):    *)
(* the block metadata store, the LRU list, the byte counter, the prefix    *)
(* index, the blob store behind S3Client, the client calls Lookup, Load,   *)
(* Store, SetCapacityBytes and the background eviction worker.             *)
(***************************************************************************)
EXTENDS Integers, Sequences, FiniteSets, TLC

VARIABLES
    blob,             \* the object store behind S3Client: s3_key -> bytes
    block_metadata_,  \* s3_key -> size
    lru_list_,        \* sequence of s3_keys, MRU at the front, LRU at the back
    used_bytes_,
    capacity_bytes_,
    prefix_hwm_,      \* prefix_hex -> highest contiguous block index
    stop_gc_,
    mutex_,           \* "free", or the holder: "gc"
    cv_gc_,           \* TRUE when notify_one was called since the worker last woke
    gc_pc,            \* position of GcThreadLoop
    key_to_evict,     \* evict_lru's local, while its DELETE is outstanding
    pc,               \* per caller thread: position inside its current call
    call,             \* per caller thread: the locals of its current call
    ret,              \* per caller thread: what its last finished call returned
    calls,            \* number of Store, Load and SetCapacityBytes calls started so far
    put_log,          \* history: the (s3_key, bytes) of every PutObject that succeeded
    evict_log,        \* history: the keys evict_lru removed, in order
    load_log,         \* history: of every Load that failed, why GetObject failed
                      \* and what Load returned
    recency,          \* history: the resident keys, latest Store/Load commit first
    mode,             \* "concurrent", or one caller with the history recorded:
                      \* "sequential", "lru", "word", "fault", "config",
                      \* "settings"; "tracker" for an LRUTracker alone
    config_,          \* the Config the engine was constructed with
    env,              \* the environment of the process: variable name -> value
    tracker,          \* an LRUTracker: its lru_list_ (nodes, MRU first) and key_map_
    touch_log         \* history: key -> the number of the call that last touched it

vars == <<blob, block_metadata_, lru_list_, used_bytes_, capacity_bytes_,
          prefix_hwm_, stop_gc_, mutex_, cv_gc_, gc_pc, key_to_evict,
          pc, call, ret, calls, put_log, evict_log, load_log, recency, mode,
          config_, env, tracker, touch_log>>

\* What no step of a constructed engine changes: the kind of run, the
\* engine's copy of its Config, the environment
fixed == <<mode, config_, env, tracker, touch_log>>

history == <<put_log, evict_log, load_log, recency, fixed>>

engine == <<block_metadata_, lru_list_, used_bytes_, capacity_bytes_, prefix_hwm_>>

----------------------------------------------------------------------------
(* Bounds and the inputs the callers draw from *)

MaxCalls == 3

MaxSeqCalls == 3

MaxLruCalls == 5

MaxWordCalls == 3

MaxFaultCalls == 4

MaxConfigCalls == 3

MaxTrackerCalls == 5

\* The width of std::uint32_t in the model. TLC's integers cannot hold 2^32,
\* so the word is scaled down, as the block size is.
WordBits == 4

Threads == {"t1", "t2"}

\* The callers that look blocks up and load them; every caller stores.
Readers == {"t1"}

\* Config::block_size_tokens as the runs configure it (the default is 256)
BlockSizeTokens == 2

\* const std::uint32_t B = config_.block_size_tokens;
B == config_.block_size_tokens

model_id == "m"

\* Token sequences the callers Store with, and those they Lookup with
TokenSeqs == { <<1, 2>>, <<1, 2, 3, 4>>, <<7, 8>>, <<9>> }

LookupSeqs == TokenSeqs \cup { <<1, 2, 3, 4, 5, 6>> }

BlockIndices == 0 .. 1

\* The same for the runs of SpecLru: four block keys, one payload size
LruTokenSeqs == { <<1, 2>>, <<1, 2, 3, 4>>, <<1, 2, 3, 4, 5, 6>>, <<7, 8>> }

LruBlockIndices == 0 .. 2

LruPayload == <<1>>

Payloads == { <<1>>, <<2, 2>> }

\* The same for the runs of SpecWord: block indices up to the largest word
WordTokenSeqs == { <<1, 2>>, <<7, 8>> }

WordBlockIndices == { 0, 1, 2 ^ (WordBits - 1) - 1, 2 ^ WordBits - 1 }

\* The same for the runs of SpecFault: a sequence long enough for every index
FaultTokenSeqs == { <<1, 2, 3, 4>> }

\* The same for the runs of SpecConfig: the block sizes a Config may carry,
\* and token sequences an engine of either block size accepts for index 0
ConfigBlockSizes == { 0, BlockSizeTokens }

ConfigTokenSeqs == { <<>>, <<1, 2>>, <<1, 2, 3, 4>> }

\* What an unsigned division by zero does: the process is killed by a trap,
\* or the instruction yields 0 and the execution goes on.
DivZeroOutcomes == { "trap", "zero" }

Capacities == { 1, 3 }

\* The keys the caller of an LRUTracker passes
TrackerKeys == { "a", "b", "c" }

\* The same for the runs of SpecSettings: the settings a caller may assign in
\* the Config it passes, and the environments the process may run in
SettingNames == { "s3_endpoint", "s3_bucket", "s3_use_path_style" }

EnvNames == { "KVC_S3_ENDPOINT", "KVC_S3_BUCKET", "KVC_S3_USE_PATH_STYLE" }

EnvValues(name) ==
    CASE name = "KVC_S3_ENDPOINT" -> { "env-endpoint" }
      [] name = "KVC_S3_BUCKET"   -> { "env-bucket" }
      [] OTHER                    -> { "1", "true", "0", "" }

Envs ==
    UNION { { e \in [S -> UNION { EnvValues(n) : n \in EnvNames }] :
                \A n \in S : e[n] \in EnvValues(n) } : S \in SUBSET EnvNames }

InitialCapacity == 3

None == "none"

\* No bytes received yet, and no key being evicted.
NoBytes == <<-1>>

NoKey == <<>>

----------------------------------------------------------------------------
(* Pure helpers *)

Min(a, b) == IF a < b THEN a ELSE b

Has(f, k) == k \in DOMAIN f

Put(f, k, v) == [x \in DOMAIN f \cup {k} |-> IF x = k THEN v ELSE f[x]]

Drop(f, k) == [x \in DOMAIN f \ {k} |-> f[x]]

RECURSIVE SumSizes(_)
SumSizes(f) ==
    IF DOMAIN f = {} THEN 0
    ELSE LET k == CHOOSE x \in DOMAIN f : TRUE
         IN  f[k] + SumSizes(Drop(f, k))

SeqSet(s) == { s[i] : i \in 1 .. Len(s) }

Without(s, k) == SelectSeq(s, LAMBDA x : x # k)

\* std::list::pop_back
PopBack(s) == SubSeq(s, 1, Len(s) - 1)

\* std::list::push_front
PushFront(s, k) == <<k>> \o s

\* lru_list_.splice(lru_list_.begin(), lru_list_, it): the node `it` points at
\* (the node of key k) is moved to the front; nothing else moves.
RECURSIVE FirstIndex(_, _, _)
FirstIndex(s, k, i) ==
    IF i > Len(s) THEN 0 ELSE IF s[i] = k THEN i ELSE FirstIndex(s, k, i + 1)

SpliceFront(s, k) ==
    LET i == FirstIndex(s, k, 1)
    IN  IF i = 0 THEN s
        ELSE <<k>> \o SubSeq(s, 1, i - 1) \o SubSeq(s, i + 1, Len(s))

\* The canonical serialization hashed by MakePrefixKey: version, block size,
\* length-prefixed model id, tokens. XXH3-128 is taken as collision free, so
\* the fingerprint is identified with the buffer it hashes.
MakePrefixKey(tokens, block_size, mid) == <<1, block_size, mid, tokens>>

\* The lower-case hex rendering of the 16 bytes: injective, kept symbolic.
ToHex(key) == <<"hex", key>>

make_s3_key(prefix_hex, block_index) == <<model_id, B, prefix_hex, block_index>>

\* PutObject that leaves an object that is already there as it is.
PutObject_NoOverwrite(objects, key, bytes) ==
    IF Has(objects, key) THEN objects ELSE Put(objects, key, bytes)

\* PutObject with a length that is one short: the last byte is not written.
PutObject_OneShort(objects, key, bytes) ==
    Put(objects, key, SubSeq(bytes, 1, Len(bytes) - 1))

\* S3Client::PutObject on success: the object holds exactly the bytes given.
PutObject(objects, key, bytes) == Put(objects, key, bytes)

\* S3Client::GetObject on success: the whole body of the object.
GetObject(objects, key) == objects[key]

\* DeleteObject that reports success and leaves the object where it is.
DeleteObject_Keeps(objects, key) == objects

\* S3Client::DeleteObject on success: the object is gone.
DeleteObject(objects, key) == Drop(objects, key)

\* touch_lru that links a node at the front for a key without metadata.
touch_lru_Inserts(lru, meta, s3_key) ==
    IF Has(meta, s3_key) THEN SpliceFront(lru, s3_key) ELSE PushFront(lru, s3_key)

\* KVCacheImpl::touch_lru
touch_lru(lru, meta, s3_key) ==
    IF Has(meta, s3_key) THEN SpliceFront(lru, s3_key) ELSE lru

\* The handle loop without the test of block_metadata_.find: a handle for
\* every index, of size 0 where there is no metadata.
Handles_Unchecked(meta, pkey_hex, i, n) ==
    [j \in 1 .. (n - i) |->
        LET s3_key == make_s3_key(pkey_hex, i + j - 1)
        IN  [s3_key |-> s3_key,
             size   |-> IF Has(meta, s3_key) THEN meta[s3_key] ELSE 0,
             index  |-> i + j - 1]]

\* The handle-materialization loop of Lookup: indices i, i+1, .. n-1, stopping
\* at the first block that has no metadata.
RECURSIVE Handles(_, _, _, _)
Handles(meta, pkey_hex, i, n) ==
    IF i >= n THEN <<>>
    ELSE LET s3_key == make_s3_key(pkey_hex, i)
         IN  IF Has(meta, s3_key)
             THEN <<[s3_key |-> s3_key, size |-> meta[s3_key], index |-> i]>>
                  \o Handles(meta, pkey_hex, i + 1, n)
             ELSE <<>>

\* The first-hit branch without `result.matched_tokens = i * B` at a block
\* that has no metadata.
LookupHit_NoTruncate(meta, hwm, pkey_hex, k) ==
    LET matched_blocks == hwm + 1
        matched_tokens == Min(k, matched_blocks * B)
    IN  [matched_tokens |-> matched_tokens,
         handles |-> Handles(meta, pkey_hex, 0, matched_tokens \div B)]

\* The body of the first-hit branch of Lookup, for the prefix of k tokens.
LookupHit(meta, hwm, pkey_hex, k) ==
    LET matched_blocks == hwm + 1
        matched_tokens == Min(k, matched_blocks * B)
        handles        == Handles(meta, pkey_hex, 0, matched_tokens \div B)
    IN  [matched_tokens |-> IF Len(handles) < matched_tokens \div B
                            THEN Len(handles) * B
                            ELSE matched_tokens,
         handles |-> handles]

\* Lookup that tries the fingerprint of the K tokens alone, without the loop
\* down to the shorter prefixes.
LookupLoop_LongestOnly(meta, hwms, tokens, k) ==
    IF k <= 0 THEN [matched_tokens |-> 0, handles |-> <<>>]
    ELSE LET pkey_hex == ToHex(MakePrefixKey(SubSeq(tokens, 1, k), B, model_id))
         IN  IF Has(hwms, pkey_hex)
             THEN LookupHit(meta, hwms[pkey_hex], pkey_hex, k)
             ELSE [matched_tokens |-> 0, handles |-> <<>>]

\* The loop of Lookup: for (k = K; k > 0; k -= B)
RECURSIVE LookupLoop(_, _, _, _)
LookupLoop(meta, hwms, tokens, k) ==
    IF k <= 0 THEN [matched_tokens |-> 0, handles |-> <<>>]
    ELSE LET pkey_hex == ToHex(MakePrefixKey(SubSeq(tokens, 1, k), B, model_id))
         IN  IF Has(hwms, pkey_hex)
             THEN LookupHit(meta, hwms[pkey_hex], pkey_hex, k)
             ELSE LookupLoop(meta, hwms, tokens, k - B)

\* What Lookup(tokens) returns in the given engine state.
LookupResult(meta, hwms, tokens) ==
    LET N == Len(tokens)
        K == (N \div B) * B
    IN  IF K = 0 THEN [matched_tokens |-> 0, handles |-> <<>>]
        ELSE LookupLoop(meta, hwms, tokens, K)

\* Unsigned 32-bit arithmetic: the result modulo the word.
UInt32(n) == n % (2 ^ WordBits)

\* Store that takes the block index for the number of blocks.
PrefixTokenCount_IndexForCount(block_index) == block_index * B

\* Store: the number of leading tokens the fingerprint is computed over.
PrefixTokenCount(block_index) == UInt32(UInt32(block_index + 1) * B)

StorePrefixHex(tokens, block_index) ==
    ToHex(MakePrefixKey(SubSeq(tokens, 1, PrefixTokenCount(block_index)), B, model_id))

\* Store that links a list node on every call, rewrite or not.
StoreLru_AlwaysPush(lru, meta, s3_key) == PushFront(lru, s3_key)

\* Store that leaves the node of a key it rewrites where it is.
StoreLru_NoTouch(lru, meta, s3_key) ==
    IF ~Has(meta, s3_key) THEN PushFront(lru, s3_key) ELSE lru

\* Store, under the lock: "Update or insert metadata", the LRU list.
StoreLru(lru, meta, s3_key) ==
    IF ~Has(meta, s3_key) THEN PushFront(lru, s3_key)
    ELSE touch_lru(lru, meta, s3_key)

\* Store that adds the new size on a rewrite without taking the old one off.
StoreUsed_NoSubtract(used, meta, s3_key, size) == used + size

\* Store, under the lock: the byte counter.
StoreUsed(used, meta, s3_key, size) ==
    IF ~Has(meta, s3_key) THEN used + size
    ELSE (used - meta[s3_key]) + size

\* Store that opens a prefix record with the block count, 1, for its hwm.
StoreHwm_CountForIndex(hwms, pkey_hex, block_index) ==
    IF ~Has(hwms, pkey_hex)
    THEN IF block_index = 0 THEN Put(hwms, pkey_hex, 1) ELSE hwms
    ELSE IF block_index = hwms[pkey_hex] + 1
         THEN Put(hwms, pkey_hex, block_index)
         ELSE hwms

\* Store that opens a prefix record, hwm 0, whatever index is stored first.
StoreHwm_NoIndexTest(hwms, pkey_hex, block_index) ==
    IF ~Has(hwms, pkey_hex)
    THEN Put(hwms, pkey_hex, 0)
    ELSE IF block_index = hwms[pkey_hex] + 1
         THEN Put(hwms, pkey_hex, block_index)
         ELSE hwms

\* Store that opens a prefix record at whatever index is stored first.
StoreHwm_AnyIndex(hwms, pkey_hex, block_index) ==
    IF ~Has(hwms, pkey_hex)
    THEN Put(hwms, pkey_hex, block_index)
    ELSE IF block_index = hwms[pkey_hex] + 1
         THEN Put(hwms, pkey_hex, block_index)
         ELSE hwms

\* Store that forgets the record of a prefix whose hwm block it rewrites.
StoreHwm_DropsOnRewrite(hwms, pkey_hex, block_index) ==
    IF ~Has(hwms, pkey_hex)
    THEN IF block_index = 0 THEN Put(hwms, pkey_hex, 0) ELSE hwms
    ELSE IF block_index = hwms[pkey_hex] + 1
         THEN Put(hwms, pkey_hex, block_index)
         ELSE IF block_index = hwms[pkey_hex] THEN Drop(hwms, pkey_hex) ELSE hwms

\* Store, under the lock: "Update HWM if this block extends it".
StoreHwm(hwms, pkey_hex, block_index) ==
    IF ~Has(hwms, pkey_hex)
    THEN IF block_index = 0 THEN Put(hwms, pkey_hex, 0) ELSE hwms
    ELSE IF block_index = hwms[pkey_hex] + 1
         THEN Put(hwms, pkey_hex, block_index)
         ELSE hwms

\* The same predicate, true at the capacity as well.
OverCapacity_AtCapacity(used, cap) == used >= cap

\* The same predicate, off by one byte.
OverCapacity_OffByOne(used, cap) == used > cap + 1

\* The predicate the worker waits on, and the condition of its while loop.
OverCapacity(used, cap) == used > cap

----------------------------------------------------------------------------
(* LRUTracker: a std::list of keys, most recently used first, and a map from
   each key to the iterator of its node. A node is a record of its identity
   and the key it holds; an iterator is the identity of a node. *)

\* LRUTracker() = default
NewTracker == [lru_list_ |-> <<>>, key_map_ |-> <<>>]

\* The keys of the list, front to back
ListKeys(tr) == [i \in 1 .. Len(tr.lru_list_) |-> tr.lru_list_[i].key]

\* The node push_front allocates: one that is not in the list
FreshNode(list) ==
    CHOOSE n \in 1 .. Len(list) + 1 :
        /\ \A i \in 1 .. Len(list) : list[i].node # n
        /\ \A m \in 1 .. n - 1 : \E i \in 1 .. Len(list) : list[i].node = m

\* lru_list_.splice(lru_list_.begin(), lru_list_, it)
SpliceNode(list, it) ==
    SelectSeq(list, LAMBDA x : x.node = it) \o SelectSeq(list, LAMBDA x : x.node # it)

\* lru_list_.erase(it)
EraseNode(list, it) == SelectSeq(list, LAMBDA x : x.node # it)

\* key_map_.erase(key)
EraseKey(map, key) == [k \in DOMAIN map \ {key} |-> map[k]]

\* A Touch that does not look the key up: it always pushes a new node.
Touch_AlwaysPush(tr, key) ==
    LET n == FreshNode(tr.lru_list_)
    IN  [lru_list_ |-> <<[node |-> n, key |-> key]>> \o tr.lru_list_,
         key_map_  |-> Put(tr.key_map_, key, n)]

\* LRUTracker::Touch
Touch(tr, key) ==
    IF Has(tr.key_map_, key)
    THEN [tr EXCEPT !.lru_list_ = SpliceNode(@, tr.key_map_[key])]
    ELSE LET n == FreshNode(tr.lru_list_)
         IN  [lru_list_ |-> <<[node |-> n, key |-> key]>> \o tr.lru_list_,
              key_map_  |-> Put(tr.key_map_, key, n)]

\* LRUTracker::Remove
Remove(tr, key) ==
    IF Has(tr.key_map_, key)
    THEN [lru_list_ |-> EraseNode(tr.lru_list_, tr.key_map_[key]),
          key_map_  |-> EraseKey(tr.key_map_, key)]
    ELSE tr

\* LRUTracker::Evict, the std::optional it returns: <<>> for std::nullopt,
\* <<key>> for a key
Evicted(tr) ==
    IF tr.lru_list_ = <<>> THEN <<>>
    ELSE <<tr.lru_list_[Len(tr.lru_list_)].key>>

\* LRUTracker::Evict, the tracker it leaves
Evict(tr) ==
    IF tr.lru_list_ = <<>> THEN tr
    ELSE [lru_list_ |-> SubSeq(tr.lru_list_, 1, Len(tr.lru_list_) - 1),
          key_map_  |-> EraseKey(tr.key_map_, Evicted(tr)[1])]

\* LRUTracker::IsEmpty
IsEmpty(tr) == DOMAIN tr.key_map_ = {}

\* LRUTracker::Size
Size(tr) == Cardinality(DOMAIN tr.key_map_)

-----------------------------------------------------------------------------
(* Blob adapter settings: s3_defaults, GetEnv, GetEnvBool, ApplyS3ConfigDefaults *)

kEndpoint == "http://127.0.0.1:9000"

kBucket == "kv-cache"

kUsePathStyle == TRUE

\* std::getenv(name) is not null
EnvSet(e, name) == name \in DOMAIN e

GetEnv(e, name, defaultValue) == IF EnvSet(e, name) THEN e[name] ELSE defaultValue

GetEnvBool(e, name, defaultValue) ==
    IF ~EnvSet(e, name) THEN defaultValue
    ELSE e[name] \in { "1", "true", "TRUE" }

\* ApplyS3ConfigDefaults: a string setting that is empty takes the
\* environment variable, or the default; s3_use_path_style takes the
\* environment variable whenever there is one.
ApplyS3ConfigDefaults(cfg, e) ==
    [cfg EXCEPT
        !.s3_endpoint = IF @ = "" THEN GetEnv(e, "KVC_S3_ENDPOINT", kEndpoint) ELSE @,
        !.s3_bucket   = IF @ = "" THEN GetEnv(e, "KVC_S3_BUCKET", kBucket) ELSE @,
        !.s3_use_path_style =
            IF EnvSet(e, "KVC_S3_USE_PATH_STYLE")
            THEN GetEnvBool(e, "KVC_S3_USE_PATH_STYLE", kUsePathStyle)
            ELSE @]

----------------------------------------------------------------------------
(* Initial state: a constructed engine, an empty bucket, the worker started *)

NoCall == [op |-> None]

EngineInit ==
    /\ blob = <<>>
    /\ block_metadata_ = <<>>
    /\ lru_list_ = <<>>
    /\ used_bytes_ = 0
    /\ capacity_bytes_ = InitialCapacity
    /\ prefix_hwm_ = <<>>
    /\ stop_gc_ = FALSE
    /\ mutex_ = "free"
    /\ cv_gc_ = FALSE
    /\ gc_pc = "wait"
    /\ key_to_evict = NoKey
    /\ pc = [t \in Threads |-> "idle"]
    /\ call = [t \in Threads |-> NoCall]
    /\ ret = [t \in Threads |-> NoCall]
    /\ calls = 0
    /\ put_log = <<>>
    /\ evict_log = <<>>
    /\ load_log = {}
    /\ recency = <<>>
    /\ env = <<>>
    /\ tracker = NewTracker
    /\ touch_log = <<>>

Init ==
    /\ EngineInit
    /\ mode = "concurrent"
    /\ config_ = [block_size_tokens |-> BlockSizeTokens]

InitSeq ==
    /\ EngineInit
    /\ mode = "sequential"
    /\ config_ = [block_size_tokens |-> BlockSizeTokens]

InitLru ==
    /\ EngineInit
    /\ mode = "lru"
    /\ config_ = [block_size_tokens |-> BlockSizeTokens]

InitWord ==
    /\ EngineInit
    /\ mode = "word"
    /\ config_ = [block_size_tokens |-> BlockSizeTokens]

InitFault ==
    /\ EngineInit
    /\ mode = "fault"
    /\ config_ = [block_size_tokens |-> BlockSizeTokens]

\* KVCacheImpl::KVCacheImpl copies whatever Config it is given and starts the
\* worker: it tests no field of it.
InitConfig ==
    /\ EngineInit
    /\ mode = "config"
    /\ config_ \in { [block_size_tokens |-> b] : b \in ConfigBlockSizes }

\* A Config as its member initializers leave it, with the fields in assigned
\* set by the caller: the strings to values of its own, s3_use_path_style to
\* path_style.
CallerConfig(assigned, path_style) ==
    [block_size_tokens |-> BlockSizeTokens,
     capacity_bytes    |-> InitialCapacity,
     s3_endpoint       |-> IF "s3_endpoint" \in assigned THEN "cfg-endpoint" ELSE "",
     s3_bucket         |-> IF "s3_bucket" \in assigned THEN "cfg-bucket" ELSE "",
     s3_use_path_style |-> IF "s3_use_path_style" \in assigned THEN path_style
                           ELSE TRUE]

\* The caller t1 has entered KVCacheImpl::KVCacheImpl, whose initializer list
\* has copied its Config; the body has not run and the worker is not started.
InitSettings ==
    /\ mode = "settings"
    /\ env \in Envs
    /\ \E assigned \in SUBSET SettingNames, path_style \in BOOLEAN :
          /\ config_ = CallerConfig(assigned, path_style)
          /\ call = [t \in Threads |->
                        IF t = "t1"
                        THEN [op |-> "KVCache", assigned |-> assigned,
                              cfg |-> CallerConfig(assigned, path_style)]
                        ELSE NoCall]
    /\ pc = [t \in Threads |-> IF t = "t1" THEN "construct" ELSE "idle"]
    /\ gc_pc = "unstarted"
    /\ blob = <<>>
    /\ block_metadata_ = <<>>
    /\ lru_list_ = <<>>
    /\ used_bytes_ = 0
    /\ capacity_bytes_ = InitialCapacity
    /\ prefix_hwm_ = <<>>
    /\ stop_gc_ = FALSE
    /\ mutex_ = "free"
    /\ cv_gc_ = FALSE
    /\ key_to_evict = NoKey
    /\ ret = [t \in Threads |-> NoCall]
    /\ calls = 0
    /\ put_log = <<>>
    /\ evict_log = <<>>
    /\ load_log = {}
    /\ recency = <<>>
    /\ tracker = NewTracker
    /\ touch_log = <<>>

\* A default-constructed LRUTracker and its one caller
InitTracker ==
    /\ EngineInit
    /\ mode = "tracker"
    /\ config_ = [block_size_tokens |-> BlockSizeTokens]

\* The histories are recorded in the runs of one caller.
Track == mode # "concurrent"

\* An argument of a call, as the recorded history keeps it
Noted(x) == IF Track THEN x ELSE <<>>

\* The number of Store, Load and SetCapacityBytes calls the callers make in a run
Budget ==
    CASE mode = "sequential" -> MaxSeqCalls
      [] mode = "lru"        -> MaxLruCalls
      [] mode = "word"       -> MaxWordCalls
      [] mode = "fault"      -> MaxFaultCalls
      [] mode = "config"     -> MaxConfigCalls
      [] mode = "tracker"    -> MaxTrackerCalls
      [] OTHER               -> MaxCalls

\* A caller may start a call: it is in no call and the engine is alive.
CanStart(t) ==
    /\ pc[t] = "idle"
    /\ ~stop_gc_

\* cv_gc_.notify_one()
Notify(over) == IF over THEN TRUE ELSE cv_gc_

----------------------------------------------------------------------------
(* Caller operations *)

\* Lookup that notifies the worker when the engine is over capacity.
Lookup_Notifies(t, tokens) ==
    /\ CanStart(t)
    /\ B > 0
    /\ (Len(tokens) \div B) * B = 0 \/ mutex_ = "free"
    /\ LET r == LookupResult(block_metadata_, prefix_hwm_, tokens)
       IN  ret' = [ret EXCEPT ![t] = [op |-> "Lookup", tokens |-> Noted(tokens),
                                      matched_tokens |-> r.matched_tokens,
                                      handles |-> r.handles]]
    /\ cv_gc_' = Notify(OverCapacity(used_bytes_, capacity_bytes_))
    /\ UNCHANGED <<blob, engine, stop_gc_, mutex_, gc_pc, key_to_evict, pc, call, calls>>
    /\ UNCHANGED history

\* The body of KVCacheImpl::KVCacheImpl: the settings are resolved, the
\* capacity is taken from the Config, the worker is started.
Construct(t) ==
    /\ pc[t] = "construct"
    /\ config_' = ApplyS3ConfigDefaults(config_, env)
    /\ capacity_bytes_' = config_.capacity_bytes
    /\ gc_pc' = "wait"
    /\ pc' = [pc EXCEPT ![t] = "idle"]
    /\ call' = [call EXCEPT ![t] = NoCall]
    /\ ret' = [ret EXCEPT ![t] = call[t]]
    /\ UNCHANGED <<blob, block_metadata_, lru_list_, used_bytes_, prefix_hwm_, stop_gc_,
                   mutex_, cv_gc_, key_to_evict, calls>>
    /\ UNCHANGED <<put_log, evict_log, load_log, recency, mode, env, tracker, touch_log>>

\* What a call of the tracker leaves alone: the engine and its callers' calls
TrackerFrame ==
    UNCHANGED <<blob, block_metadata_, lru_list_, used_bytes_, capacity_bytes_,
                prefix_hwm_, stop_gc_, mutex_, cv_gc_, gc_pc, key_to_evict, pc, call,
                put_log, evict_log, load_log, recency, mode, config_, env>>

\* The caller calls Touch(key).
CallTouch(key) ==
    /\ mode = "tracker"
    /\ calls < Budget
    /\ tracker' = Touch(tracker, key)
    /\ touch_log' = Put(touch_log, key, calls + 1)
    /\ calls' = calls + 1
    /\ ret' = [ret EXCEPT !["t1"] = [op |-> "Touch", key |-> key]]
    /\ TrackerFrame

\* The caller calls Remove(key).
CallRemove(key) ==
    /\ mode = "tracker"
    /\ calls < Budget
    /\ tracker' = Remove(tracker, key)
    /\ calls' = calls + 1
    /\ ret' = [ret EXCEPT !["t1"] = [op |-> "Remove", key |-> key]]
    /\ UNCHANGED touch_log
    /\ TrackerFrame

\* The caller calls Evict().
CallEvict ==
    /\ mode = "tracker"
    /\ calls < Budget
    /\ tracker' = Evict(tracker)
    /\ calls' = calls + 1
    /\ ret' = [ret EXCEPT !["t1"] = [op |-> "Evict", value |-> Evicted(tracker)]]
    /\ UNCHANGED touch_log
    /\ TrackerFrame

\* KVCacheImpl::Lookup. With K = 0 it returns before taking the mutex. N / B
\* is defined when B > 0; LookupDivZero is the call on an engine with B = 0.
Lookup(t, tokens) ==
    /\ CanStart(t)
    /\ B > 0
    /\ (Len(tokens) \div B) * B = 0 \/ mutex_ = "free"
    /\ LET r == LookupResult(block_metadata_, prefix_hwm_, tokens)
       IN  ret' = [ret EXCEPT ![t] = [op |-> "Lookup", tokens |-> Noted(tokens),
                                      matched_tokens |-> r.matched_tokens,
                                      handles |-> r.handles]]
    /\ UNCHANGED <<blob, engine, stop_gc_, mutex_, cv_gc_, gc_pc, key_to_evict,
                   pc, call, calls>>
    /\ UNCHANGED history

\* KVCacheImpl::Lookup on an engine with B = 0: `(N / B) * B` divides by
\* zero. Either the division traps and the process, with all its threads, is
\* gone; or it yields 0, so that K = 0 and Lookup returns {0, {}}.
LookupDivZero(t, tokens, outcome) ==
    /\ CanStart(t)
    /\ B = 0
    /\ pc[t] # "killed"
    /\ IF outcome = "trap"
       THEN /\ pc' = [x \in Threads |-> "killed"]
            /\ gc_pc' = "killed"
            /\ ret' = [ret EXCEPT ![t] = [op |-> "Lookup", tokens |-> Noted(tokens),
                                          trapped |-> TRUE]]
       ELSE /\ ret' = [ret EXCEPT ![t] = [op |-> "Lookup", tokens |-> Noted(tokens),
                                          matched_tokens |-> 0, handles |-> <<>>]]
            /\ UNCHANGED <<pc, gc_pc>>
    /\ UNCHANGED <<blob, engine, stop_gc_, mutex_, cv_gc_, key_to_evict, call, calls>>
    /\ UNCHANGED history

\* Store that goes on to commit whatever PutObject returned.
PutProceeds_Always(ok) == TRUE

\* Store: `if (!s3_client_->PutObject(..)) return false;`
PutProceeds(ok) == ok

\* KVCacheImpl::Store up to the return of PutObject: validation, key
\* derivation, and S3Client::PutObject, which writes the object or fails.
StorePut(t, tokens, block_index, bytes, ok) ==
    /\ CanStart(t)
    /\ calls < Budget
    /\ calls' = calls + 1
    /\ IF Len(tokens) < PrefixTokenCount(block_index)
       THEN /\ ret' = [ret EXCEPT ![t] = [op |-> "Store", ok |-> FALSE]]
            /\ UNCHANGED <<blob, pc, call, put_log>>
       ELSE LET pkey_hex == StorePrefixHex(tokens, block_index)
                s3_key   == make_s3_key(pkey_hex, block_index)
            IN    IF PutProceeds(ok)
                  THEN /\ blob' = IF ok THEN PutObject(blob, s3_key, bytes) ELSE blob
                       /\ put_log' = IF Track /\ ok
                                    THEN Append(put_log, [s3_key |-> s3_key, bytes |-> bytes])
                                    ELSE put_log
                       /\ pc' = [pc EXCEPT ![t] = "store_commit"]
                       /\ call' = [call EXCEPT ![t] =
                                     [op |-> "Store", tokens |-> Noted(tokens),
                                      block_index |-> block_index,
                                      bytes |-> bytes, pkey_hex |-> pkey_hex,
                                      s3_key |-> s3_key]]
                       /\ UNCHANGED ret
                  ELSE /\ ret' = [ret EXCEPT ![t] = [op |-> "Store", ok |-> FALSE]]
                       /\ UNCHANGED <<blob, pc, call, put_log>>
    /\ UNCHANGED <<engine, stop_gc_, mutex_, cv_gc_, gc_pc, key_to_evict, evict_log, load_log,
                   recency, fixed>>

\* KVCacheImpl::Store from the lock_guard to the return.
StoreCommit(t) ==
    /\ pc[t] = "store_commit"
    /\ mutex_ = "free"
    /\ LET s3_key == call[t].s3_key
           size   == Len(call[t].bytes)
           used   == StoreUsed(used_bytes_, block_metadata_, s3_key, size)
       IN  /\ lru_list_' = StoreLru(lru_list_, block_metadata_, s3_key)
           /\ block_metadata_' = Put(block_metadata_, s3_key, size)
           /\ used_bytes_' = used
           /\ prefix_hwm_' = StoreHwm(prefix_hwm_, call[t].pkey_hex, call[t].block_index)
           /\ cv_gc_' = Notify(OverCapacity(used, capacity_bytes_))
    /\ pc' = [pc EXCEPT ![t] = "idle"]
    /\ call' = [call EXCEPT ![t] = NoCall]
    /\ ret' = [ret EXCEPT ![t] = [op |-> "Store", ok |-> TRUE]]
    /\ UNCHANGED <<blob, capacity_bytes_, stop_gc_, mutex_, gc_pc, key_to_evict,
                   calls>>
    /\ recency' = <<call[t].s3_key>> \o Without(recency, call[t].s3_key)
    /\ UNCHANGED <<put_log, evict_log, load_log, fixed>>

\* KVCacheImpl::Load, called with a handle of the LookupResult the caller has
\* just received, up to the return of S3Client::GetObject: the bytes of the
\* object, or failure (the object is not there, or the call failed otherwise).
LoadGet(t, ok) ==
    /\ CanStart(t)
    /\ calls < Budget
    /\ calls' = calls + 1
    /\ ret[t].op = "Lookup"
    /\ \E i \in 1 .. Len(ret[t].handles) :
         LET ref == ret[t].handles[i]
         IN  IF ok /\ Has(blob, ref.s3_key)
             THEN /\ pc' = [pc EXCEPT ![t] = "load_commit"]
                  /\ call' = [call EXCEPT ![t] = [op |-> "Load", ref |-> ref,
                                                  out_bytes |-> GetObject(blob, ref.s3_key)]]
                  /\ UNCHANGED ret
                  /\ UNCHANGED load_log
             ELSE /\ ret' = [ret EXCEPT ![t] = [op |-> "Load", ok |-> FALSE,
                                                bytes |-> NoBytes,
                                                ref |-> Noted(ref),
                                                tokens |-> ret[t].tokens]]
                  /\ load_log' =
                        IF Track
                        THEN load_log \cup
                               {[cause  |-> IF Has(blob, ref.s3_key) THEN "Other"
                                            ELSE "NotFound",
                                 result |-> [ok |-> FALSE, bytes |-> NoBytes]]}
                        ELSE load_log
                  /\ UNCHANGED <<pc, call>>
    /\ UNCHANGED <<blob, engine, stop_gc_, mutex_, cv_gc_, gc_pc, key_to_evict>>
    /\ UNCHANGED <<put_log, evict_log, recency, fixed>>

\* KVCacheImpl::Load from the lock_guard to the return.
LoadCommit(t) ==
    /\ pc[t] = "load_commit"
    /\ mutex_ = "free"
    /\ lru_list_' = touch_lru(lru_list_, block_metadata_, call[t].ref.s3_key)
    /\ pc' = [pc EXCEPT ![t] = "idle"]
    /\ call' = [call EXCEPT ![t] = NoCall]
    /\ ret' = [ret EXCEPT ![t] = [op |-> "Load", ok |-> TRUE,
                                  bytes |-> call[t].out_bytes,
                                  ref |-> Noted(call[t].ref),
                                  tokens |-> ret[t].tokens]]
    /\ UNCHANGED <<blob, block_metadata_, used_bytes_, capacity_bytes_, prefix_hwm_,
                   stop_gc_, mutex_, cv_gc_, gc_pc, key_to_evict, calls>>
    /\ recency' = IF Has(block_metadata_, call[t].ref.s3_key)
                  THEN <<call[t].ref.s3_key>> \o Without(recency, call[t].ref.s3_key)
                  ELSE recency
    /\ UNCHANGED <<put_log, evict_log, load_log, fixed>>

\* SetCapacityBytes without the notify_one.
SetCapacityBytes_NoNotify(t, cap) ==
    /\ CanStart(t)
    /\ calls < Budget
    /\ mutex_ = "free"
    /\ capacity_bytes_' = cap
    /\ calls' = calls + 1
    /\ UNCHANGED <<blob, block_metadata_, lru_list_, used_bytes_, prefix_hwm_,
                   stop_gc_, mutex_, cv_gc_, gc_pc, key_to_evict, pc, call, ret>>
    /\ UNCHANGED history

\* KVCacheImpl::SetCapacityBytes
SetCapacityBytes(t, cap) ==
    /\ CanStart(t)
    /\ calls < Budget
    /\ mutex_ = "free"
    /\ capacity_bytes_' = cap
    /\ cv_gc_' = Notify(OverCapacity(used_bytes_, cap))
    /\ calls' = calls + 1
    /\ UNCHANGED <<blob, block_metadata_, lru_list_, used_bytes_, prefix_hwm_,
                   stop_gc_, mutex_, gc_pc, key_to_evict, pc, call, ret>>
    /\ UNCHANGED history

\* KVCacheImpl::~KVCacheImpl: stop_gc_ is set under the lock, the worker is
\* notified and joined. No call is in flight when the engine is destroyed.
Destroy ==
    /\ ~stop_gc_
    /\ \A t \in Threads : pc[t] = "idle"
    /\ mutex_ = "free"
    /\ stop_gc_' = TRUE
    /\ cv_gc_' = TRUE
    /\ UNCHANGED <<blob, engine, mutex_, gc_pc, key_to_evict, pc, call, ret, calls>>
    /\ UNCHANGED history

----------------------------------------------------------------------------
(* The eviction worker, KVCacheImpl::GcThreadLoop *)

\* A worker whose loop has no `if (stop_gc_) break;`
GcWake_NoStopTest ==
    /\ gc_pc = "wait"
    /\ mutex_ = "free"
    /\ cv_gc_' = FALSE
    /\ gc_pc' = "while"
    /\ mutex_' = "gc"
    /\ UNCHANGED <<blob, engine, stop_gc_, key_to_evict, pc, call, ret, calls>>
    /\ UNCHANGED history

\* wait_for returns with the mutex held: its predicate holds, or its bounded
\* wait of one second elapsed. Then `if (stop_gc_) break;` which releases the
\* mutex on the way out.
GcWake ==
    /\ gc_pc = "wait"
    /\ mutex_ = "free"
    /\ cv_gc_' = FALSE
    /\ IF stop_gc_
       THEN /\ gc_pc' = "exited"
            /\ UNCHANGED mutex_
       ELSE /\ gc_pc' = "while"
            /\ mutex_' = "gc"
    /\ UNCHANGED <<blob, engine, stop_gc_, key_to_evict, pc, call, ret, calls>>
    /\ UNCHANGED history

\* A worker whose iteration ends without releasing the unique_lock.
GcSleep_KeepsMutex ==
    /\ gc_pc = "while"
    /\ mutex_ = "gc"
    /\ ~OverCapacity(used_bytes_, capacity_bytes_)
    /\ gc_pc' = "wait"
    /\ UNCHANGED <<blob, engine, stop_gc_, mutex_, cv_gc_, key_to_evict, pc, call, ret,
                   calls>>
    /\ UNCHANGED history

\* `while (used_bytes_ > capacity_bytes_)` is false: the iteration ends, the
\* unique_lock is released and the worker waits again.
GcSleep ==
    /\ gc_pc = "while"
    /\ mutex_ = "gc"
    /\ ~OverCapacity(used_bytes_, capacity_bytes_)
    /\ gc_pc' = "wait"
    /\ mutex_' = "free"
    /\ UNCHANGED <<blob, engine, stop_gc_, cv_gc_, key_to_evict, pc, call, ret, calls>>
    /\ UNCHANGED history

\* A worker that takes the front of the list, the most recently used key.
Victim_Front(lru) == lru[1]

\* evict_lru that goes to the DELETE with the mutex still held.
EvictUnlock_Skipped(holder) == holder

\* evict_lru: mutex_.unlock() before the DELETE
EvictUnlock(holder) == "free"

\* The victim of evict_lru
Victim(lru) == lru[Len(lru)]

\* `while (used_bytes_ > capacity_bytes_) evict_lru();` up to mutex_.unlock().
\* With an empty list, or a tail key without metadata, evict_lru returns with
\* the mutex still held and the loop comes around.
GcEvict ==
    /\ gc_pc = "while"
    /\ mutex_ = "gc"
    /\ OverCapacity(used_bytes_, capacity_bytes_)
    /\ IF lru_list_ = <<>>
       THEN UNCHANGED <<engine, mutex_, gc_pc, key_to_evict, evict_log, recency>>
       ELSE LET key == Victim(lru_list_)
            IN  /\ lru_list_' = PopBack(lru_list_)
                /\ IF ~Has(block_metadata_, key)
                   THEN UNCHANGED <<block_metadata_, used_bytes_, mutex_, gc_pc,
                                    key_to_evict, evict_log, recency>>
                   ELSE /\ block_metadata_' = Drop(block_metadata_, key)
                        /\ used_bytes_' = used_bytes_ - block_metadata_[key]
                        /\ mutex_' = EvictUnlock(mutex_)
                        /\ gc_pc' = "delete"
                        /\ key_to_evict' = key
                        /\ evict_log' = IF Track THEN Append(evict_log, key) ELSE evict_log
                        /\ recency' = Without(recency, key)
                /\ UNCHANGED <<capacity_bytes_, prefix_hwm_>>
    /\ UNCHANGED <<blob, stop_gc_, cv_gc_, pc, call, ret, calls, put_log, load_log, fixed>>

\* A worker that leaves its loop when DeleteObject fails.
GcDelete_StopsOnFailure(ok) ==
    /\ gc_pc = "delete"
    /\ blob' = IF ok THEN DeleteObject(blob, key_to_evict) ELSE blob
    /\ gc_pc' = IF ok THEN "relock" ELSE "exited"
    /\ key_to_evict' = NoKey
    /\ UNCHANGED <<engine, stop_gc_, mutex_, cv_gc_, pc, call, ret, calls>>
    /\ UNCHANGED history

\* S3Client::DeleteObject returns: the object is gone, or the call failed.
GcDelete(ok) ==
    /\ gc_pc = "delete"
    /\ blob' = IF ok THEN DeleteObject(blob, key_to_evict) ELSE blob
    /\ gc_pc' = "relock"
    /\ key_to_evict' = NoKey
    /\ UNCHANGED <<engine, stop_gc_, mutex_, cv_gc_, pc, call, ret, calls>>
    /\ UNCHANGED history

\* mutex_.lock() at the end of evict_lru
GcRelock ==
    /\ gc_pc = "relock"
    /\ mutex_ = "free"
    /\ mutex_' = "gc"
    /\ gc_pc' = "while"
    /\ UNCHANGED <<blob, engine, stop_gc_, cv_gc_, key_to_evict, pc, call, ret, calls>>
    /\ UNCHANGED history

----------------------------------------------------------------------------

Next ==
    \/ \E t \in Readers, tokens \in LookupSeqs : Lookup(t, tokens)
    \/ \E t \in Threads, tokens \in TokenSeqs, i \in BlockIndices, b \in Payloads,
          ok \in BOOLEAN : StorePut(t, tokens, i, b, ok)
    \/ \E t \in Threads : StoreCommit(t)
    \/ \E t \in Readers, ok \in BOOLEAN : LoadGet(t, ok)
    \/ \E t \in Threads : LoadCommit(t)
    \/ \E t \in Threads, cap \in Capacities : SetCapacityBytes(t, cap)
    \/ Destroy
    \/ GcWake
    \/ GcSleep
    \/ GcEvict
    \/ \E ok \in BOOLEAN : GcDelete(ok)
    \/ GcRelock

Spec == Init /\ [][Next]_vars

\* A sequential run of a live engine: one caller, blob calls that succeed,
\* histories recorded.
NextSeq ==
    \/ \E tokens \in LookupSeqs : Lookup("t1", tokens)
    \/ \E tokens \in TokenSeqs, i \in BlockIndices, b \in Payloads :
          StorePut("t1", tokens, i, b, TRUE)
    \/ StoreCommit("t1")
    \/ LoadGet("t1", TRUE)
    \/ LoadCommit("t1")
    \/ \E cap \in Capacities : SetCapacityBytes("t1", cap)
    \/ GcWake
    \/ GcSleep
    \/ GcEvict
    \/ GcDelete(TRUE)
    \/ GcRelock

SpecSeq == InitSeq /\ [][NextSeq]_vars

\* A live engine under fair scheduling: the worker keeps running, a call that
\* has done its blob I/O gets the mutex and returns, and the engine is not
\* destroyed. The callers stop issuing Store and SetCapacityBytes calls when
\* the call budget is used up.
NextLive ==
    \/ \E t \in Readers, tokens \in LookupSeqs : Lookup(t, tokens)
    \/ \E t \in Threads, tokens \in TokenSeqs, i \in BlockIndices, b \in Payloads,
          ok \in BOOLEAN : StorePut(t, tokens, i, b, ok)
    \/ \E t \in Threads : StoreCommit(t)
    \/ \E t \in Readers, ok \in BOOLEAN : LoadGet(t, ok)
    \/ \E t \in Threads : LoadCommit(t)
    \/ \E t \in Threads, cap \in Capacities : SetCapacityBytes(t, cap)
    \/ GcWake
    \/ GcSleep
    \/ GcEvict
    \/ \E ok \in BOOLEAN : GcDelete(ok)
    \/ GcRelock

SpecLive ==
    /\ Init
    /\ [][NextLive]_vars
    /\ WF_vars(GcWake)
    /\ WF_vars(GcSleep)
    /\ WF_vars(GcEvict)
    /\ WF_vars(\E ok \in BOOLEAN : GcDelete(ok))
    /\ WF_vars(GcRelock)
    /\ \A t \in Threads : WF_vars(StoreCommit(t)) /\ WF_vars(LoadCommit(t))

\* The engine with its destructor, under fair scheduling: the worker thread
\* keeps running, blob calls in flight return, and a caller inside a call
\* finishes it.
SpecStop ==
    /\ Init
    /\ [][Next]_vars
    /\ WF_vars(GcWake)
    /\ WF_vars(GcSleep)
    /\ WF_vars(GcEvict)
    /\ WF_vars(\E ok \in BOOLEAN : GcDelete(ok))
    /\ WF_vars(GcRelock)
    /\ \A t \in Threads : WF_vars(StoreCommit(t)) /\ WF_vars(LoadCommit(t))

\* The live engine when every blob call returns and the mutex is fair to the
\* callers: the worker keeps running, and a caller blocked in lock(), whose
\* commit is possible each time the worker releases the mutex, gets it.
SpecFair ==
    /\ Init
    /\ [][NextLive]_vars
    /\ WF_vars(GcWake)
    /\ WF_vars(GcSleep)
    /\ WF_vars(GcEvict)
    /\ WF_vars(\E ok \in BOOLEAN : GcDelete(ok))
    /\ WF_vars(GcRelock)
    /\ \A t \in Threads : SF_vars(StoreCommit(t)) /\ SF_vars(LoadCommit(t))

\* The construction of an engine from each Config of the callers, in each
\* environment.
NextSettings == Construct("t1")

SpecSettings == InitSettings /\ [][NextSettings]_vars

\* One caller of an LRUTracker
NextTracker ==
    \/ \E key \in TrackerKeys : CallTouch(key)
    \/ \E key \in TrackerKeys : CallRemove(key)
    \/ CallEvict

SpecTracker == InitTracker /\ [][NextTracker]_vars

\* Engines constructed from Configs of either block size, one caller, blob
\* calls that succeed.
NextConfig ==
    \/ \E tokens \in ConfigTokenSeqs : Lookup("t1", tokens)
    \/ \E tokens \in ConfigTokenSeqs, outcome \in DivZeroOutcomes :
          LookupDivZero("t1", tokens, outcome)
    \/ \E tokens \in ConfigTokenSeqs, i \in BlockIndices, b \in Payloads :
          StorePut("t1", tokens, i, b, TRUE)
    \/ StoreCommit("t1")
    \/ GcWake
    \/ GcSleep
    \/ GcEvict
    \/ GcDelete(TRUE)
    \/ GcRelock

SpecConfig == InitConfig /\ [][NextConfig]_vars

\* A run of one caller storing, looking up and loading blocks of one size
\* S = 1 under the initial capacity 3 * S, blob calls that succeed, histories
\* recorded.
NextLru ==
    \/ \E tokens \in LruTokenSeqs : Lookup("t1", tokens)
    \/ \E tokens \in LruTokenSeqs, i \in LruBlockIndices :
          StorePut("t1", tokens, i, LruPayload, TRUE)
    \/ StoreCommit("t1")
    \/ LoadGet("t1", TRUE)
    \/ LoadCommit("t1")
    \/ GcWake
    \/ GcSleep
    \/ GcEvict
    \/ GcDelete(TRUE)
    \/ GcRelock

SpecLru == InitLru /\ [][NextLru]_vars

\* A run of one caller that stores with block indices from the whole range of
\* the 32-bit word, blob calls that succeed, histories recorded.
NextWord ==
    \/ \E tokens \in WordTokenSeqs : Lookup("t1", tokens)
    \/ \E tokens \in WordTokenSeqs, i \in WordBlockIndices, b \in Payloads :
          StorePut("t1", tokens, i, b, TRUE)
    \/ StoreCommit("t1")
    \/ GcWake
    \/ GcSleep
    \/ GcEvict
    \/ GcDelete(TRUE)
    \/ GcRelock

SpecWord == InitWord /\ [][NextWord]_vars

\* A run of one caller whose arguments are always valid and whose blob calls
\* may fail, histories recorded.
NextFault ==
    \/ \E tokens \in FaultTokenSeqs : Lookup("t1", tokens)
    \/ \E tokens \in FaultTokenSeqs, i \in BlockIndices, b \in Payloads,
          ok \in BOOLEAN : StorePut("t1", tokens, i, b, ok)
    \/ StoreCommit("t1")
    \/ \E ok \in BOOLEAN : LoadGet("t1", ok)
    \/ LoadCommit("t1")
    \/ \E cap \in Capacities : SetCapacityBytes("t1", cap)
    \/ GcWake
    \/ GcSleep
    \/ GcEvict
    \/ \E ok \in BOOLEAN : GcDelete(ok)
    \/ GcRelock

SpecFault == InitFault /\ [][NextFault]_vars

----------------------------------------------------------------------------
(* Properties *)

\* No caller is inside Store or Load, and the worker is not inside evict_lru.
Quiescent ==
    /\ \A t \in Threads : pc[t] = "idle"
    /\ gc_pc \in {"wait", "exited"}

\* The step of the worker that removes a block's metadata.
EvictRemoves == gc_pc = "while" /\ gc_pc' = "delete"

\* C1: whenever no thread holds the engine mutex, used_bytes_ is the sum of
\* the sizes recorded in block_metadata_ (0 when it is empty), whatever
\* Stores, rewrites and evictions went before.
C1_ByteAccounting ==
    mutex_ = "free" => used_bytes_ = SumSizes(block_metadata_)

\* C1 witness: the worker has just removed a block, the mutex is free, and a
\* block of two bytes is what remains.
C1_Witness ==
    /\ mutex_ = "free"
    /\ gc_pc = "relock"
    /\ Cardinality(DOMAIN block_metadata_) = 1
    /\ used_bytes_ = 2

\* C2: whenever no thread holds the engine mutex, the keys of block_metadata_
\* are exactly the keys on lru_list_ and each is on the list once.
C2_MetadataLruBijection ==
    mutex_ = "free" =>
        /\ SeqSet(lru_list_) = DOMAIN block_metadata_
        /\ Len(lru_list_) = Cardinality(DOMAIN block_metadata_)

\* C2 witness: each of the two callers has completed one successful Store,
\* and one block of one byte is resident. The capacity is still the initial
\* one, which two blocks exceed only if both have two bytes, so nothing was
\* evicted: the second Store rewrote the key of the first.
C2_Witness ==
    /\ calls = 2
    /\ \A t \in Threads : pc[t] = "idle" /\ ret[t] = [op |-> "Store", ok |-> TRUE]
    /\ Cardinality(DOMAIN block_metadata_) = 1
    /\ used_bytes_ = 1
    /\ Len(lru_list_) = 1
    /\ mutex_ = "free"

\* C3 (as the text states it): with blob calls that succeed, whenever no
\* Store and no eviction is mid-flight, every key of block_metadata_ names an
\* object that is in the blob store.
C3_NoDanglingMetadata ==
    Quiescent => \A s3_key \in DOMAIN block_metadata_ : Has(blob, s3_key)

\* Prefix-record residency: for every prefix record, every block index up to
\* its hwm has metadata under that prefix.
I3(meta, hwms) ==
    \A pkey_hex \in DOMAIN hwms :
        \A i \in 0 .. hwms[pkey_hex] : Has(meta, make_s3_key(pkey_hex, i))

\* C4 (as the text states it): prefix-record residency holds whenever no
\* engine operation is mid-step, also after the worker has removed blocks.
C4_PrefixResidencyAlways ==
    Quiescent => I3(block_metadata_, prefix_hwm_)

\* C4 (amended): prefix-record residency holds initially and every step
\* other than the worker's removal of a block preserves it; a removal may
\* break it, because evict_lru leaves prefix_hwm_ as it is.
C4_PrefixResidencyPreserved ==
    /\ I3(block_metadata_, prefix_hwm_)
    /\ [][(I3(block_metadata_, prefix_hwm_) /\ ~EvictRemoves)
            => I3(block_metadata_', prefix_hwm_')]_vars

\* C4 witness: two prefix records, each with its block 0 resident, after two
\* Stores and with nothing mid-step.
C4_Witness ==
    /\ Quiescent
    /\ Cardinality(DOMAIN prefix_hwm_) = 2
    /\ I3(block_metadata_, prefix_hwm_)

\* The object key Store(tokens, block_index, ..) writes.
StoreKey(tokens, block_index) ==
    make_s3_key(StorePrefixHex(tokens, block_index), block_index)

\* The positions of put_log at which the object s3_key was written.
PutsTo(s3_key) == { p \in 1 .. Len(put_log) : put_log[p].s3_key = s3_key }

\* Blocks 0 .. n-1 of tokens have been stored, in that order, once each, the
\* Stores have returned, and nothing has been evicted.
StoredInOrder(tokens, n) ==
    /\ evict_log = <<>>
    /\ pc["t1"] = "idle"
    /\ \A i \in 0 .. n - 1 : Cardinality(PutsTo(StoreKey(tokens, i))) = 1
    /\ \A i \in 0 .. n - 2 :
          \A p \in PutsTo(StoreKey(tokens, i)), q \in PutsTo(StoreKey(tokens, i + 1)) :
              p < q

\* The handles of blocks 0 .. n-1 under the fingerprint of the first k tokens.
HandlesUnder(tokens, k, n) ==
    [j \in 1 .. n |->
        LET s3_key == make_s3_key(
                ToHex(MakePrefixKey(SubSeq(tokens, 1, k), B, model_id)), j - 1)
        IN  [s3_key |-> s3_key,
             size   |-> IF Has(block_metadata_, s3_key) THEN block_metadata_[s3_key]
                        ELSE 0,
             index  |-> j - 1]]

\* The sequence whose first two blocks are stored, and its extensions looked up
TwoBlocks == <<1, 2, 3, 4>>

Extensions == { <<1, 2, 3, 4>>, <<1, 2, 3, 4, 5, 6>> }

\* C5 (as the text states it): once blocks 0 and 1 of a sequence t have been
\* stored in order, with no eviction, Lookup of t or of an extension of t
\* returns matched_tokens = 2 * B and the handles of indices 0 and 1 under the
\* fingerprint of t[0 .. 2 * B).
C5_MultiBlockMatch ==
    StoredInOrder(TwoBlocks, 2) =>
        \A ext \in Extensions :
            LookupResult(block_metadata_, prefix_hwm_, ext) =
                [matched_tokens |-> 2 * B,
                 handles |-> HandlesUnder(TwoBlocks, 2 * B, 2)]

\* C6: in a sequential run without eviction, when Load returns for a handle
\* that Lookup(tokens) gave for block index i, and the object key of
\* Store(tokens, i, ..) was written exactly once, with bytes b, then Load
\* succeeded and returned exactly b.
C6_RoundTrip ==
    (ret["t1"].op = "Load" /\ evict_log = <<>>) =>
        LET s3_key == StoreKey(ret["t1"].tokens, ret["t1"].ref.index)
        IN  Cardinality(PutsTo(s3_key)) = 1 =>
                \A p \in PutsTo(s3_key) :
                    /\ ret["t1"].ok
                    /\ ret["t1"].bytes = put_log[p].bytes

\* C6 witness: Load has returned the two bytes stored once under the key of
\* the handle, after a Store of another key, and nothing was evicted.
C6_Witness ==
    /\ ret["t1"].op = "Load"
    /\ ret["t1"].ok
    /\ evict_log = <<>>
    /\ Len(put_log) = 2
    /\ Cardinality(PutsTo(StoreKey(ret["t1"].tokens, ret["t1"].ref.index))) = 1
    /\ ret["t1"].bytes = <<2, 2>>

\* C7: in a live engine whose callers eventually stop issuing Store and
\* SetCapacityBytes calls and whose worker is scheduled fairly, eventually
\* used_bytes_ <= capacity_bytes_, and it stays so.
C7_CapacityBound == <>[](used_bytes_ <= capacity_bytes_)

\* C7 witness: the worker has removed a block and that brought used_bytes_,
\* still positive, within the capacity.
C7_Witness ==
    /\ gc_pc = "relock"
    /\ used_bytes_ > 0
    /\ used_bytes_ <= capacity_bytes_

\* The capacity is 3 * S; four Store calls and no other call that changes the
\* engine state have been issued, they wrote four distinct keys of S bytes
\* each, they have returned and the worker has run: it waits, with nothing
\* over capacity.
FourStoredAndSettled ==
    /\ capacity_bytes_ = 3 * Len(LruPayload)
    /\ calls = 4
    /\ Len(put_log) = 4
    /\ \A p, q \in 1 .. 4 : p # q => put_log[p].s3_key # put_log[q].s3_key
    /\ pc["t1"] = "idle"
    /\ gc_pc = "wait"
    /\ ~OverCapacity(used_bytes_, capacity_bytes_)

\* C8: the key an eviction step removes is the resident block that a Store or
\* a Load least recently made most-recently-used; and with capacity 3 * S,
\* once four distinct keys of size S have been stored in sequence and the
\* worker has run, exactly the first-stored key is removed and the other
\* three remain.
C8_LruVictim ==
    /\ [][EvictRemoves => key_to_evict' = recency[Len(recency)]]_vars
    /\ [](FourStoredAndSettled
          => /\ evict_log = <<put_log[1].s3_key>>
             /\ DOMAIN block_metadata_ = { put_log[p].s3_key : p \in 2 .. 4 }
             /\ ~Has(blob, put_log[1].s3_key)
             /\ used_bytes_ = 3 * Len(LruPayload))

\* C8 witness: the four keys are stored, the worker has run, and the log of
\* evictions holds the first-stored key.
C8_Witness ==
    /\ FourStoredAndSettled
    /\ evict_log = <<put_log[1].s3_key>>

\* The keys of the handles a Lookup returned.
HandleKeys(handles) == { handles[j].s3_key : j \in 1 .. Len(handles) }

\* C9 (as the text states it): when Store(t, m, b) returns after Lookup(t)
\* returned m handles, with the m blocks still resident, the m returned
\* blocks and the new block are the m + 1 most recently used blocks of the
\* LRU order.
C9_LookupTouchesLru ==
    [][\A t \in Threads :
          ( /\ pc[t] = "store_commit" /\ pc'[t] = "idle"
            /\ ret[t].op = "Lookup"
            /\ ret[t].tokens = call[t].tokens
            /\ call[t].block_index = Len(ret[t].handles)
            /\ HandleKeys(ret[t].handles) \subseteq DOMAIN block_metadata_ )
          => LET m == Len(ret[t].handles)
             IN  /\ Len(lru_list_') >= m + 1
                 /\ SeqSet(SubSeq(lru_list_', 1, m + 1)) =
                        HandleKeys(ret[t].handles) \cup {call[t].s3_key}]_vars

\* C10: over any step that is not the worker's removal of a block, the
\* matched_tokens that Lookup returns for a token sequence does not decrease,
\* whatever Store, Load or SetCapacityBytes the step is.
C10_LookupMonotone ==
    [][~EvictRemoves =>
         \A tokens \in LookupSeqs :
             LookupResult(block_metadata_', prefix_hwm_', tokens).matched_tokens
                 >= LookupResult(block_metadata_, prefix_hwm_, tokens).matched_tokens]_vars

\* C10 witness: a Lookup returned matched_tokens = B; two Stores and a
\* SetCapacityBytes have been issued, two blocks are resident and a Store is
\* about to commit.
C10_Witness ==
    /\ ret["t1"].op = "Lookup"
    /\ ret["t1"].matched_tokens = B
    /\ calls = 3
    /\ Cardinality(DOMAIN block_metadata_) = 2
    /\ pc["t2"] = "store_commit"

\* C11: a Store(tokens, block_index, bytes) with fewer than
\* (block_index + 1) * B tokens returns failure, issues no PUT, and leaves the
\* blob store, the metadata, the LRU list, used_bytes_ and the prefix index
\* as they were.
C11_StoreInvalidArg ==
    [][\A tokens \in TokenSeqs, i \in BlockIndices, b \in Payloads :
          (Len(tokens) < (i + 1) * B /\ StorePut("t1", tokens, i, b, TRUE))
          => /\ ret'["t1"] = [op |-> "Store", ok |-> FALSE]
             /\ pc'["t1"] = "idle"
             /\ UNCHANGED <<blob, put_log, engine>>]_vars

\* C11 witness: with a block resident, a Store has returned failure; the blob
\* calls of this run all succeed, so it was refused for its arguments.
C11_Witness ==
    /\ mode = "sequential"
    /\ pc["t1"] = "idle"
    /\ ret["t1"] = [op |-> "Store", ok |-> FALSE]
    /\ block_metadata_ # <<>>

\* C12 (as the text states it): for every block index of the 32-bit range, a
\* Store with fewer tokens than the mathematical product (block_index + 1) * B
\* returns failure and writes nothing.
C12_StoreLengthCheckExact ==
    [][\A tokens \in WordTokenSeqs, i \in WordBlockIndices, b \in Payloads :
          (Len(tokens) < (i + 1) * B /\ StorePut("t1", tokens, i, b, TRUE))
          => /\ ret'["t1"] = [op |-> "Store", ok |-> FALSE]
             /\ pc'["t1"] = "idle"
             /\ UNCHANGED <<blob, put_log, engine>>]_vars

\* C13: when the PUT of a Store fails, Store returns failure, and the
\* metadata, the LRU list, used_bytes_ and the prefix index are as before the
\* call; the worker is not notified, and nothing of the call remains to be
\* committed.
C13_StorePutFailure ==
    [][\A tokens \in FaultTokenSeqs, i \in BlockIndices, b \in Payloads :
          StorePut("t1", tokens, i, b, FALSE)
          => /\ ret'["t1"] = [op |-> "Store", ok |-> FALSE]
             /\ pc'["t1"] = "idle"
             /\ UNCHANGED <<engine, cv_gc_, put_log>>]_vars

\* C13 witness: with a block resident, a Store has returned failure; the
\* arguments of this run are all valid, so it was its PUT that failed.
C13_Witness ==
    /\ mode = "fault"
    /\ pc["t1"] = "idle"
    /\ ret["t1"] = [op |-> "Store", ok |-> FALSE]
    /\ block_metadata_ # <<>>

\* C14: a Store(tokens, i, b) with i >= 1 whose fingerprint has no prefix
\* record succeeds: the object is written, its metadata is inserted with size
\* |b| (used_bytes_ grows by |b| when the key was not resident), and no prefix
\* record is created; and as long as the Stores so far all wrote that block,
\* Lookup(tokens) returns {0, []}.
C14_NonContiguousStore ==
    /\ [][( /\ pc["t1"] = "store_commit" /\ pc'["t1"] = "idle"
            /\ call["t1"].block_index >= 1
            /\ ~Has(prefix_hwm_, call["t1"].pkey_hex) )
          => LET s3_key == call["t1"].s3_key
                 bytes  == call["t1"].bytes
             IN  /\ ret'["t1"] = [op |-> "Store", ok |-> TRUE]
                 /\ put_log[Len(put_log)] = [s3_key |-> s3_key, bytes |-> bytes]
                 /\ Has(block_metadata_', s3_key)
                 /\ block_metadata_'[s3_key] = Len(bytes)
                 /\ ~Has(block_metadata_, s3_key)
                       => used_bytes_' = used_bytes_ + Len(bytes)
                 /\ prefix_hwm_' = prefix_hwm_]_vars
    /\ [](\A tokens \in TokenSeqs, i \in BlockIndices :
            ( /\ i >= 1 /\ Len(tokens) >= (i + 1) * B
              /\ pc["t1"] = "idle" /\ put_log # <<>>
              /\ \A p \in 1 .. Len(put_log) :
                    put_log[p].s3_key = StoreKey(tokens, i) )
            => LookupResult(block_metadata_, prefix_hwm_, tokens)
                 = [matched_tokens |-> 0, handles |-> <<>>])

\* C14 witness: block 1 of <<1, 2, 3, 4>> is the one block stored and is
\* resident, there is no prefix record, and Lookup of the sequence has
\* returned nothing.
C14_Witness ==
    /\ mode = "sequential"
    /\ Len(put_log) = 1
    /\ DOMAIN block_metadata_ = {StoreKey(<<1, 2, 3, 4>>, 1)}
    /\ used_bytes_ = Len(put_log[1].bytes)
    /\ prefix_hwm_ = <<>>
    /\ ret["t1"].op = "Lookup"
    /\ ret["t1"].tokens = <<1, 2, 3, 4>>
    /\ ret["t1"].matched_tokens = 0

\* The caller t1 takes the first step of a Load, and the handle it loads.
LoadStarts ==
    /\ calls' = calls + 1
    /\ pc["t1"] = "idle"
    /\ ret["t1"].op = "Lookup"
    /\ ret'["t1"].op = "Load" \/ pc'["t1"] = "load_commit"

LoadedRef == IF pc'["t1"] = "load_commit" THEN call'["t1"].ref ELSE ret'["t1"].ref

\* The worker has removed the metadata of s3_key, its DELETE has completed,
\* and the key has not become resident again.
EvictedAndDeleted(s3_key) ==
    /\ s3_key \in SeqSet(evict_log)
    /\ key_to_evict # s3_key
    /\ ~Has(block_metadata_, s3_key)

\* C15: when Load is called with a handle that Lookup returned and whose
\* block the worker has since removed and deleted from the blob store, the
\* key not being stored again, Load returns failure and leaves the metadata,
\* the LRU list, used_bytes_ and the prefix index unchanged.
C15_StaleHandle ==
    [][(LoadStarts /\ EvictedAndDeleted(LoadedRef.s3_key))
         => /\ ret'["t1"].op = "Load"
            /\ ~ret'["t1"].ok
            /\ pc'["t1"] = "idle"
            /\ UNCHANGED engine]_vars

\* C15 witness: Load has returned failure for a handle whose key is in the
\* log of evictions and no longer resident, with the worker back at its wait.
C15_Witness ==
    /\ mode = "sequential"
    /\ ret["t1"].op = "Load"
    /\ ~ret["t1"].ok
    /\ gc_pc = "wait"
    /\ EvictedAndDeleted(ret["t1"].ref.s3_key)

\* C16 (as the text states it): a Load whose GET found no object and a Load
\* whose GET failed otherwise return two outcomes the caller can tell apart.
C16_LoadErrorKinds ==
    \A x, y \in load_log : x.cause # y.cause => x.result # y.result

\* C17: no blob GET, PUT or DELETE is in progress in a thread that holds the
\* engine mutex. The worker's DELETE is outstanding while gc_pc = "delete". A
\* caller's GET or PUT is the first step of its Load or Store, which neither
\* needs nor takes the mutex; a caller holds the mutex only within its commit
\* step, Lookup or SetCapacityBytes, which make no blob call, so that no state
\* has a caller for the holder.
C17_LockDiscipline ==
    /\ gc_pc = "delete" => mutex_ # "gc"
    /\ \A t \in Threads : mutex_ # t

\* C17 witness: the worker's DELETE is outstanding with the mutex free, while
\* one caller has done its PUT and waits to commit.
C17_Witness ==
    /\ gc_pc = "delete"
    /\ mutex_ = "free"
    /\ \E t \in Threads : pc[t] = "store_commit"

\* C18: when two callers Store one key concurrently, the blob store holds
\* the payload of the PUT that executed last (every PUT leaves its payload
\* under the key), and the metadata is that of the Store that committed last:
\* every commit leaves one entry for the key, with the size of its payload,
\* one node on the LRU list, and used_bytes_ counting the key once with that
\* size.
C18_ConcurrentStores ==
    /\ [][\A t \in Threads :
            (pc[t] = "idle" /\ pc'[t] = "store_commit")
            => /\ Has(blob', call'[t].s3_key)
               /\ blob'[call'[t].s3_key] = call'[t].bytes]_vars
    /\ [][\A t \in Threads :
            (pc[t] = "store_commit" /\ pc'[t] = "idle")
            => LET s3_key == call[t].s3_key
               IN  /\ Has(block_metadata_', s3_key)
                   /\ block_metadata_'[s3_key] = Len(call[t].bytes)
                   /\ Cardinality({ j \in 1 .. Len(lru_list_') :
                                       lru_list_'[j] = s3_key }) = 1
                   /\ used_bytes_' = SumSizes(block_metadata_')]_vars

\* C18 witness: each of the two callers has completed one successful Store,
\* of the same key; the size in the metadata is not the size of the payload
\* in the blob store: the Store whose PUT came first committed last.
C18_Witness ==
    /\ calls = 2
    /\ \A t \in Threads : pc[t] = "idle" /\ ret[t] = [op |-> "Store", ok |-> TRUE]
    /\ Len(lru_list_) = 1
    /\ \E s3_key \in DOMAIN block_metadata_ :
          /\ Has(blob, s3_key)
          /\ block_metadata_[s3_key] # Len(blob[s3_key])
          /\ used_bytes_ = block_metadata_[s3_key]

\* C19: every handle Lookup returns names an object key of which a
\* successful PUT completed before the Lookup returned it.
C19_PutBeforeHandle ==
    \A t \in Threads :
        ret[t].op = "Lookup" =>
            \A j \in 1 .. Len(ret[t].handles) :
                PutsTo(ret[t].handles[j].s3_key) # {}

\* C19 witness: Lookup has returned a handle in a run whose PUTs may fail;
\* one PUT has succeeded.
C19_Witness ==
    /\ mode = "fault"
    /\ ret["t1"].op = "Lookup"
    /\ Len(ret["t1"].handles) = 1
    /\ calls = 2
    /\ Len(put_log) = 1


\* C20: once the destructor has set stop_gc_ and notified, the worker leaves
\* GcThreadLoop, which is what gc_thread_.join() waits for, whether the worker
\* was waiting or inside an eviction run, when DELETE calls in flight return
\* and scheduling is fair.
C20_ShutdownTerminates == stop_gc_ ~> (gc_pc = "exited")

\* C20 witness: the destructor has set stop_gc_ while the worker is inside
\* evict_lru with its DELETE in flight, and the engine is still over capacity.
C20_Witness ==
    /\ stop_gc_
    /\ gc_pc = "delete"
    /\ used_bytes_ > capacity_bytes_


\* The shape of a Lookup result r for the token sequence tokens.
LookupShape(r, tokens) ==
    LET N == Len(tokens)
        K == (N \div B) * B
    IN  /\ r.op = "Lookup"
        /\ r.matched_tokens % B = 0
        /\ r.matched_tokens <= K
        /\ r.matched_tokens = B * Len(r.handles)
        /\ \A j \in 1 .. Len(r.handles) : r.handles[j].index = j - 1
        /\ N < B => (r.matched_tokens = 0 /\ r.handles = <<>>)

\* C21: whatever Lookup returns has matched_tokens a multiple of B, at most
\* K = (N / B) * B, and equal to B times the number of handles, the j-th
\* handle (counting from 0) carrying block index j; for N < B the result is
\* {0, []}.
C21_LookupShape ==
    [][\A t \in Readers, tokens \in LookupSeqs :
          Lookup(t, tokens) => LookupShape(ret'[t], tokens)]_vars

\* C21 witness: Lookup of <<1, 2>> found the record of its prefix, block 0
\* gone from the metadata: it returned no handle and no matched token.
C21_Witness ==
    /\ mode = "sequential"
    /\ ret["t1"].op = "Lookup"
    /\ ret["t1"].tokens = <<1, 2>>
    /\ ret["t1"].matched_tokens = 0
    /\ ret["t1"].handles = <<>>
    /\ Has(prefix_hwm_, StorePrefixHex(<<1, 2>>, 0))
    /\ ~Has(block_metadata_, make_s3_key(StorePrefixHex(<<1, 2>>, 0), 0))


\* C22: SetCapacityBytes(c) makes the capacity c, and no other step changes
\* the capacity, so that CapacityBytes() returns c until the next
\* SetCapacityBytes; when c is below used_bytes_ the call signals the worker;
\* and, the callers' Stores coming to an end, the worker scheduled fairly and
\* its DELETEs returning, used_bytes_ over the capacity leads to used_bytes_
\* within the capacity.
C22_SetCapacity ==
    /\ [][capacity_bytes_' # capacity_bytes_ =>
            \E t \in Threads, c \in Capacities : SetCapacityBytes(t, c)]_vars
    /\ [][\A t \in Threads, c \in Capacities :
            SetCapacityBytes(t, c) =>
                /\ capacity_bytes_' = c
                /\ used_bytes_ > c => cv_gc_']_vars
    /\ \A c \in Capacities :
          (capacity_bytes_ = c /\ used_bytes_ > c) ~> (used_bytes_ <= capacity_bytes_)

\* C22 witness: the capacity is 1, below the initial capacity that the two
\* resident blocks fill, and the worker, still waiting, has been signalled.
C22_Witness ==
    /\ capacity_bytes_ = 1
    /\ used_bytes_ = InitialCapacity
    /\ Cardinality(DOMAIN block_metadata_) = 2
    /\ cv_gc_
    /\ gc_pc = "wait"
    /\ calls = 3


\* C23 (as the text states it): an engine whose block size is 0 does not
\* exist past its construction, so that none executes a Lookup or a Store:
\* no call of it has started, returned or written an object.
C23_NoZeroBlockSize ==
    B = 0 =>
        /\ \A t \in Threads : pc[t] = "idle" /\ ret[t] = NoCall
        /\ blob = <<>>


\* C24: every step that removes a key from the metadata is taken by the
\* worker holding the mutex in a state where used_bytes_ > capacity_bytes_,
\* whatever Store and SetCapacityBytes did while the DELETE of the previous
\* victim was outstanding.
C24_NoOverEviction ==
    [][(DOMAIN block_metadata_ \ DOMAIN block_metadata_' # {}) =>
          /\ mutex_ = "gc"
          /\ gc_pc = "while"
          /\ used_bytes_ > capacity_bytes_]_vars

\* C24 witness: the worker is in the DELETE of a victim, the mutex released,
\* used_bytes_ within the capacity, a block still resident, and a caller has
\* done the PUT of a Store and is about to commit it.
C24_Witness ==
    /\ gc_pc = "delete"
    /\ mutex_ = "free"
    /\ used_bytes_ <= capacity_bytes_
    /\ block_metadata_ # <<>>
    /\ \E t \in Threads : pc[t] = "store_commit"


\* C25: every handle a Lookup step returns names a key that is in the
\* metadata in the state the step reads, with the size recorded there; and
\* when the worker issues the DELETE of a victim, the victim's metadata and
\* LRU entry are gone and the mutex is released.
C25_HandlesResident ==
    /\ [][\A t \in Readers, tokens \in LookupSeqs :
            Lookup(t, tokens) =>
                \A j \in 1 .. Len(ret'[t].handles) :
                    LET h == ret'[t].handles[j]
                    IN  /\ Has(block_metadata_, h.s3_key)
                        /\ h.size = block_metadata_[h.s3_key]]_vars
    /\ [][(gc_pc # "delete" /\ gc_pc' = "delete") =>
            /\ ~Has(block_metadata_', key_to_evict')
            /\ key_to_evict' \notin SeqSet(lru_list_')
            /\ mutex_' = "free"]_vars

\* C25 witness: Lookup has returned the handle of a resident block while the
\* worker is in the DELETE of another key.
C25_Witness ==
    /\ ret["t1"].op = "Lookup"
    /\ Len(ret["t1"].handles) = 1
    /\ Has(block_metadata_, ret["t1"].handles[1].s3_key)
    /\ gc_pc = "delete"
    /\ key_to_evict # ret["t1"].handles[1].s3_key


\* C26: the commit of a successful Store with fingerprint pk and index i
\* creates the record of pk with hwm 0 when pk has no record and i = 0, makes
\* the hwm of pk h + 1 when pk has a record with hwm h and i = h + 1, and in
\* every other case leaves the prefix index as it is.
C26_RecordStore ==
    [][StoreCommit("t1") =>
          LET pk == call["t1"].pkey_hex
              i  == call["t1"].block_index
          IN  IF ~Has(prefix_hwm_, pk) /\ i = 0
              THEN prefix_hwm_' = Put(prefix_hwm_, pk, 0)
              ELSE IF Has(prefix_hwm_, pk) /\ i = prefix_hwm_[pk] + 1
                   THEN prefix_hwm_' = Put(prefix_hwm_, pk, prefix_hwm_[pk] + 1)
                   ELSE prefix_hwm_' = prefix_hwm_]_vars

\* C26 witness: a Store of index 1 found the record of its fingerprint with
\* hwm 0 and has raised it to 1.
C26_Witness ==
    /\ mode = "config"
    /\ ret["t1"] = [op |-> "Store", ok |-> TRUE]
    /\ \E pk \in DOMAIN prefix_hwm_ : prefix_hwm_[pk] = 1


\* The fingerprint of the first k tokens, and the block-aligned lengths k at
\* which the prefix of tokens has a record in the prefix index.
PrefixHex(tokens, k) == ToHex(MakePrefixKey(SubSeq(tokens, 1, k), B, model_id))

RecordedLengths(tokens) ==
    { k \in 1 .. Len(tokens) : k % B = 0 /\ Has(prefix_hwm_, PrefixHex(tokens, k)) }

Longest(ks) == CHOOSE k \in ks : \A x \in ks : x <= k

C28_LoadEffect ==
    [][\A t \in Readers :
          LoadCommit(t) =>
              LET s3_key == call[t].ref.s3_key
              IN  /\ ret'[t].op = "Load"
                  /\ ret'[t].ok
                  /\ ret'[t].bytes = call[t].out_bytes
                  /\ lru_list_' = IF Has(block_metadata_, s3_key)
                                  THEN <<s3_key>> \o Without(lru_list_, s3_key)
                                  ELSE lru_list_
                  /\ block_metadata_' = block_metadata_
                  /\ used_bytes_' = used_bytes_
                  /\ capacity_bytes_' = capacity_bytes_
                  /\ prefix_hwm_' = prefix_hwm_]_vars

\* C28 witness: the GET of a Load has returned the bytes of the object and
\* the worker has since removed the key from the metadata, its DELETE not yet
\* done; the Load is about to take the mutex, with another block resident.
C28_Witness ==
    /\ pc["t1"] = "load_commit"
    /\ call["t1"].out_bytes # NoBytes
    /\ ~Has(block_metadata_, call["t1"].ref.s3_key)
    /\ key_to_evict = call["t1"].ref.s3_key
    /\ lru_list_ # <<>>


\* C29: when the DELETE of a victim fails, the step changes neither the
\* metadata, the LRU list, used_bytes_ (the victim stays removed and its
\* bytes stay subtracted) nor the object, nothing is returned to any caller,
\* and the worker goes on: it takes the mutex again and is back at the test
\* of its while loop.
C29_DeleteFailureTolerated ==
    /\ [][GcDelete(FALSE) =>
            /\ UNCHANGED <<engine, blob, pc, call, ret>>
            /\ gc_pc' = "relock"]_vars
    /\ [][(gc_pc = "relock" /\ gc_pc' # "relock") =>
            /\ gc_pc' = "while"
            /\ mutex_' = "gc"]_vars

\* C29 witness: the worker has removed two victims; the object of the first,
\* written by one PUT, is still in the blob store after its DELETE returned,
\* and the key has no metadata and no LRU entry.
C29_Witness ==
    /\ mode = "fault"
    /\ Len(evict_log) = 2
    /\ evict_log[1] # evict_log[2]
    /\ Cardinality(PutsTo(evict_log[1])) = 1
    /\ Has(blob, evict_log[1])
    /\ ~Has(block_metadata_, evict_log[1])
    /\ evict_log[1] \notin SeqSet(lru_list_)


\* C30: the commit of a successful Store records the new size for its key
\* and puts the key at the front of the LRU list, the order of the other keys
\* kept; used_bytes_ changes by the new size less the old one when the key
\* was in the metadata and grows by the new size when it was not; and the
\* worker is notified when used_bytes_ exceeds the capacity after the commit
\* and not otherwise.
C30_StoreCommitEffect ==
    [][\A t \in Threads :
          StoreCommit(t) =>
              LET s3_key == call[t].s3_key
                  size   == Len(call[t].bytes)
              IN  /\ block_metadata_' = Put(block_metadata_, s3_key, size)
                  /\ lru_list_' = <<s3_key>> \o Without(lru_list_, s3_key)
                  /\ used_bytes_' = IF Has(block_metadata_, s3_key)
                                    THEN used_bytes_ + size - block_metadata_[s3_key]
                                    ELSE used_bytes_ + size
                  /\ cv_gc_' = IF used_bytes_' > capacity_bytes_ THEN TRUE ELSE cv_gc_
                  /\ ret'[t] = [op |-> "Store", ok |-> TRUE]]_vars

\* C30 witness: the two callers have each completed a successful Store, two
\* calls in all, and one key of one byte is resident: the second commit found
\* the key in the metadata.
C30_Witness ==
    /\ calls = 2
    /\ \A t \in Threads : pc[t] = "idle" /\ ret[t] = [op |-> "Store", ok |-> TRUE]
    /\ Cardinality(DOMAIN block_metadata_) = 1
    /\ Len(lru_list_) = 1
    /\ used_bytes_ = 1
    /\ gc_pc = "wait"


\* C31: the worker holds the mutex only at the test of its while loop, never
\* while it waits or while its DELETE is outstanding; a held mutex is
\* released again, so that a call that takes the mutex in one step (Lookup,
\* SetCapacityBytes, UsedBytes, CapacityBytes) can take it; and a Store or a
\* Load that has done its blob call takes the mutex, commits and returns.
C31_NoDeadlock ==
    /\ [](mutex_ = "gc" => gc_pc = "while")
    /\ (mutex_ = "gc") ~> (mutex_ = "free")
    /\ \A t \in Threads :
          (pc[t] \in {"store_commit", "load_commit"}) ~> (pc[t] = "idle")

\* C31 witness: the worker holds the mutex while one caller waits to commit
\* a Load and the other to commit a Store.
C31_Witness ==
    /\ mutex_ = "gc"
    /\ pc["t1"] = "load_commit"
    /\ pc["t2"] = "store_commit"


\* The token sequence a fingerprint was computed over.
TokensOf(pkey_hex) == pkey_hex[2][4]

\* C32 (as the text states it): in every reachable state every prefix record
\* has hwm 0 and is the record of a fingerprint over exactly one block of
\* tokens.
C32_HwmStaysZero ==
    \A pkey_hex \in DOMAIN prefix_hwm_ :
        /\ prefix_hwm_[pkey_hex] = 0
        /\ Len(TokensOf(pkey_hex)) = B


\* C33: no step of a caller or of the worker removes a prefix record or
\* lowers its hwm: a fingerprint that has a record before a step has one
\* after it, with an hwm at least as large.
C33_RecordsPermanent ==
    [][\A pkey_hex \in DOMAIN prefix_hwm_ :
          /\ Has(prefix_hwm_', pkey_hex)
          /\ prefix_hwm_'[pkey_hex] >= prefix_hwm_[pkey_hex]]_vars

\* C33 witness: a prefix has its record although the worker has removed its
\* block 0 from the metadata and deleted the object, and waits again.
C33_Witness ==
    /\ gc_pc = "wait"
    /\ \E pkey_hex \in DOMAIN prefix_hwm_ :
          /\ ~Has(block_metadata_, make_s3_key(pkey_hex, 0))
          /\ ~Has(blob, make_s3_key(pkey_hex, 0))


\* C34: whenever the worker holds the mutex with used_bytes_ over the
\* capacity, the LRU list is not empty and its tail key has metadata; and
\* each pass of the worker through evict_lru removes exactly one key from the
\* metadata and from the list and releases the mutex for the DELETE.
C34_EvictionProgress ==
    /\ []((mutex_ = "gc" /\ used_bytes_ > capacity_bytes_) =>
            /\ lru_list_ # <<>>
            /\ Has(block_metadata_, lru_list_[Len(lru_list_)]))
    /\ [][GcEvict =>
            /\ Cardinality(DOMAIN block_metadata_') = Cardinality(DOMAIN block_metadata_) - 1
            /\ Len(lru_list_') = Len(lru_list_) - 1
            /\ mutex_' = "free"
            /\ gc_pc' = "delete"]_vars

\* C34 witness: the worker holds the mutex at the test of its loop, over
\* capacity, with two keys in the list and their two objects stored.
C34_Witness ==
    /\ mutex_ = "gc"
    /\ gc_pc = "while"
    /\ used_bytes_ > capacity_bytes_
    /\ Len(lru_list_) = 2
    /\ Cardinality(DOMAIN blob) = 2


\* C35: a Lookup step leaves the metadata (keys and sizes), used_bytes_, the
\* capacity, the prefix index and the objects of the blob store as they are,
\* starts no blob call (no caller and no worker position changes, so that no
\* GET, PUT or DELETE becomes outstanding) and does not notify the worker.
C35_LookupReadOnly ==
    [][\A t \in Readers, tokens \in LookupSeqs :
          Lookup(t, tokens) =>
              /\ UNCHANGED <<block_metadata_, used_bytes_, capacity_bytes_, prefix_hwm_>>
              /\ UNCHANGED blob
              /\ UNCHANGED <<pc, call, gc_pc, key_to_evict>>
              /\ UNCHANGED cv_gc_]_vars

\* C35 witness: Lookup has returned a handle in an engine over its capacity
\* whose worker still waits, the block of the handle resident.
C35_Witness ==
    /\ ret["t1"].op = "Lookup"
    /\ Len(ret["t1"].handles) = 1
    /\ Has(block_metadata_, ret["t1"].handles[1].s3_key)
    /\ used_bytes_ > capacity_bytes_
    /\ gc_pc = "wait"


\* The value the text gives a setting: the field of the Config when the
\* caller assigned it, otherwise the environment variable when there is one,
\* otherwise the default.
Resolved(assigned, given, name, from_env, defaultValue) ==
    IF name \in assigned THEN given
    ELSE IF EnvSet(env, from_env) THEN env[from_env]
    ELSE defaultValue

\* C36 (as the text states it): in a constructed engine every blob adapter
\* setting has the value of the Config field the caller assigned, otherwise
\* that of its environment variable, otherwise the default; for
\* s3_use_path_style the environment variable counts as true when it is "1",
\* "true" or "TRUE".
C36_SettingsPrecedence ==
    ret["t1"].op = "KVCache" =>
        LET given    == ret["t1"].cfg
            assigned == ret["t1"].assigned
        IN  /\ config_.s3_endpoint =
                  Resolved(assigned, given.s3_endpoint, "s3_endpoint",
                           "KVC_S3_ENDPOINT", kEndpoint)
            /\ config_.s3_bucket =
                  Resolved(assigned, given.s3_bucket, "s3_bucket",
                           "KVC_S3_BUCKET", kBucket)
            /\ config_.s3_use_path_style =
                  IF "s3_use_path_style" \in assigned THEN given.s3_use_path_style
                  ELSE IF EnvSet(env, "KVC_S3_USE_PATH_STYLE")
                       THEN env["KVC_S3_USE_PATH_STYLE"] \in { "1", "true", "TRUE" }
                       ELSE kUsePathStyle


\* The keys an LRUTracker holds
Present(tr) == { tr.lru_list_[i].key : i \in 1 .. Len(tr.lru_list_) }

\* The list and the key map of the tracker agree: no key twice in the list,
\* the map has the keys of the list, each mapped to the node that holds it,
\* and Size() and IsEmpty() count them.
TrackerConsistent(tr) ==
    /\ \A i, j \in 1 .. Len(tr.lru_list_) :
          (tr.lru_list_[i].key = tr.lru_list_[j].key
              \/ tr.lru_list_[i].node = tr.lru_list_[j].node) => i = j
    /\ DOMAIN tr.key_map_ = Present(tr)
    /\ \A i \in 1 .. Len(tr.lru_list_) :
          tr.key_map_[tr.lru_list_[i].key] = tr.lru_list_[i].node
    /\ Size(tr) = Len(tr.lru_list_)
    /\ IsEmpty(tr) <=> tr.lru_list_ = <<>>

\* C37: after any sequence of Touch, Remove and Evict calls the list and the
\* key map of an LRUTracker hold the same keys, each exactly once, and Size()
\* is their count; Touch of an absent key puts it at the MRU end and moves
\* nothing else; Evict returns nullopt exactly when the tracker is empty, and
\* otherwise returns and removes the key whose most recent Touch is the oldest
\* among the keys present, leaving the others in their order.
C37_LruTracker ==
    /\ [] TrackerConsistent(tracker)
    /\ [][\A key \in TrackerKeys :
            (CallTouch(key) /\ key \notin Present(tracker)) =>
                ListKeys(tracker') = <<key>> \o ListKeys(tracker)]_vars
    /\ [][CallEvict =>
            /\ ret'["t1"].value = <<>> <=> IsEmpty(tracker)
            /\ IsEmpty(tracker) => tracker' = tracker
            /\ ~IsEmpty(tracker) =>
                  /\ Len(ret'["t1"].value) = 1
                  /\ ret'["t1"].value[1] \in Present(tracker)
                  /\ Present(tracker') = Present(tracker) \ {ret'["t1"].value[1]}
                  /\ \A k \in Present(tracker) :
                        touch_log[ret'["t1"].value[1]] <= touch_log[k]
                  /\ ListKeys(tracker') =
                        SubSeq(ListKeys(tracker), 1, Len(tracker.lru_list_) - 1)
                  /\ Size(tracker') = Size(tracker) - 1]_vars

\* Touch a, Touch b, Touch a, Touch c, Evict: the key evicted is b, not the
\* key inserted first, and c and a stay in their order.
C37_Witness ==
    /\ mode = "tracker"
    /\ ret["t1"] = [op |-> "Evict", value |-> <<"b">>]
    /\ tracker.lru_list_ = <<[node |-> 3, key |-> "c"], [node |-> 1, key |-> "a"]>>
    /\ touch_log = [k \in TrackerKeys |-> CASE k = "a" -> 3 [] k = "b" -> 2 [] OTHER -> 4]

====
